---- MODULE Spec2Model ----
(***************************************************************************)
(* The CoNLL-2003 preprocessing pipeline of CoNLL.ipynb: two notebooks     *)
(* that read a corpus file into a data frame, strip the tag prefixes,      *)
(* number the sentences, drop the rows with missing values, fit label      *)
(* encoders on words and tags, group the ids by sentence and pad every     *)
(* sentence to a fixed length.  The first notebook goes on to encode a     *)
(* second (test) file with the fitted encoders.                            *)
(*                                                                         *)
(* Strings are sequences of one-character strings, so that rsplit and the  *)
(* sorted order of LabelEncoder.classes_ are computed and not assumed.     *)
(* A data frame is the sequence of its rows, a row a record of its         *)
(* columns.  Input domain of the model: fields hold no quote character,    *)
(* and no line holds more than four fields.                                *)
(***************************************************************************)
EXTENDS Integers, Sequences, FiniteSets, TLC

VARIABLES
    notebook,            \* 1: first notebook of the file, 2: second notebook
    pc,                  \* the cell that runs next
    err,                 \* the exception that stopped the run, "" when none
    train_file,          \* lines of eng.train, each a sequence of fields
    train,               \* the data frame train
    entity_tag_classes,  \* entity_tag_encoder.classes_
    word_classes,        \* word_encoder.classes_
    onehot_classes,      \* onehot_encoder.classes_
    x_train_sentence,    \* Series: sentence -> list of word ids
    y_train_tag,         \* Series: sentence -> list of tag ids
    y_train_tag_onehot,  \* list of 2-d arrays, one per sentence
    x_train_seq,         \* padded input array
    y_train_seq,         \* padded label array
    test_file,           \* lines of eng.testa
    test,                \* the data frame test
    GloVe,               \* the data frame of the pretrained word vectors
    embedding_matrix     \* the weights handed to the Embedding layer

vars == <<notebook, pc, err, train_file, train, entity_tag_classes, word_classes,
          onehot_classes, x_train_sentence, y_train_tag, y_train_tag_onehot,
          x_train_seq, y_train_seq, test_file, test, GloVe, embedding_matrix>>

-----------------------------------------------------------------------------
(* Bounds of the model. *)

\* longest training file, in lines
MaxLines == 3
\* longest test file, in lines
MaxTestLines == 1
\* the maxlen handed to pad_sequences (100 and 60 in the notebooks), scaled
\* so that files of MaxLines lines hold sentences longer than it
MaxLen == 2

-----------------------------------------------------------------------------
(* Strings. *)

\* the characters the corpus of the model uses, in ASCII order
Chars == <<"-", "A", "B", "C", "E", "G", "I", "L", "M", "N", "O", "P", "R",
           "S", "U", "V", "Z", "a", "b", "e", "u">>

Ord(c) == CHOOSE i \in 1..Len(Chars) : Chars[i] = c

Max(S) == CHOOSE x \in S : \A y \in S : y <= x

Min(S) == CHOOSE x \in S : \A y \in S : x <= y

\* str < str of Python 2: bytewise, a proper prefix sorts first
StrLess(s, t) ==
    \E k \in 1..(Len(t)) :
        /\ \A j \in 1..(k - 1) : j <= Len(s) /\ s[j] = t[j]
        /\ \/ k = Len(s) + 1
           \/ k <= Len(s) /\ Ord(s[k]) < Ord(t[k])

\* a missing value of pandas; read_csv reads the empty field as one
NaN == <<>>

isnull(v) == v = NaN

-----------------------------------------------------------------------------
(* The corpus of the model. *)

EU == <<"E", "U">>
NA == <<"N", "A">>
Zz == <<"Z">>
a_ == <<"a">>
b_ == <<"b">>
NNP == <<"N", "N", "P">>
I_NP == <<"I", "-", "N", "P">>
O == <<"O">>
B_ORG == <<"B", "-", "O", "R", "G">>
I_ORG == <<"I", "-", "O", "R", "G">>
B_PER == <<"B", "-", "P", "E", "R">>
I_PER == <<"I", "-", "P", "E", "R">>
B_LOC == <<"B", "-", "L", "O", "C">>
I_LOC == <<"I", "-", "L", "O", "C">>
B_MISC == <<"B", "-", "M", "I", "S", "C">>
I_MISC == <<"I", "-", "M", "I", "S", "C">>

\* the tagging scheme of the corpus
RawTags == {O, B_ORG, I_ORG, B_PER, I_PER, B_LOC, I_LOC, B_MISC, I_MISC}

\* a token line "word POS chunk tag", split at the separator " "
TokenLine(w, t) == <<w, NNP, I_NP, t>>

\* the empty line that ends a sentence
BlankLine == <<>>

\* a line cut short: the chunk and the tag are missing
ShortLine == <<a_, NNP>>

TrainLines == {BlankLine, ShortLine, TokenLine(EU, B_ORG), TokenLine(a_, O),
               TokenLine(NA, O), TokenLine(b_, I_PER)}

TestLines == {BlankLine, ShortLine, TokenLine(a_, O), TokenLine(Zz, O),
              TokenLine(a_, I_LOC)}

FilesOf(Lines, n) == UNION {[1..k -> Lines] : k \in 1..n}

TrainFiles == FilesOf(TrainLines, MaxLines)

TestFiles == FilesOf(TestLines, MaxTestLines)

\* the files that list a set of tags of the scheme, one token line per tag,
\* in increasing or in decreasing order of the tags
WordAt(i) == IF i % 3 = 1 THEN a_ ELSE IF i % 3 = 2 THEN EU ELSE b_

TagFile(tags) == [i \in 1..Len(tags) |-> TokenLine(WordAt(i), tags[i])]

Reverse(s) == [i \in 1..Len(s) |-> s[Len(s) + 1 - i]]

-----------------------------------------------------------------------------
(* pandas. *)

\* the strings read_csv reads as missing (keep_default_na), among those the
\* corpus can spell
na_values == {<<>>, NA}

\* field k of a line as read_csv reads it against names=[word, POS, chunk,
\* origin_entity]: a line with fewer fields is filled up with NaN
Field(line, k) ==
    IF k <= Len(line) /\ line[k] \notin na_values THEN line[k] ELSE NaN

\* pd.read_csv(path, names=[...], header=None, sep=" ", skip_blank_lines=False)
read_csv(file) ==
    [i \in 1..Len(file) |->
        [word |-> Field(file[i], 1), POS |-> Field(file[i], 2),
         chunk |-> Field(file[i], 3), origin_entity |-> Field(file[i], 4)]]

\* df[name] = vals
SetCol(df, name, vals) ==
    [i \in 1..Len(df) |->
        [c \in DOMAIN df[i] \cup {name} |->
            IF c = name THEN vals[i] ELSE df[i][c]]]

\* df[name]
Col(df, name) == [i \in 1..Len(df) |-> df[i][name]]

\* s[2:], which cuts a two-character prefix off every tag
rsplit_last_slice(s) == SubSeq(s, 3, Len(s))

\* s.rsplit("-", 1)[0] of one string: what precedes the last "-"
rsplit_head(s) ==
    LET H == {i \in 1..Len(s) : s[i] = "-"}
    IN  IF H = {} THEN s ELSE SubSeq(s, 1, Max(H) - 1)

\* s.rsplit("-", 1)[-1] of one string: what follows the last "-"
rsplit_last(s) ==
    LET H == {i \in 1..Len(s) : s[i] = "-"}
    IN  IF H = {} THEN s ELSE SubSeq(s, Max(H) + 1, Len(s))

\* the .str accessor exists on a column of strings only; a column without
\* any string is a float column of NaN
has_str(col) == \E i \in 1..Len(col) : ~isnull(col[i])

\* col.str.rsplit("-", 1).str[-1]: NaN stays NaN
str_rsplit_last(col) ==
    [i \in 1..Len(col) |-> IF isnull(col[i]) THEN NaN ELSE rsplit_last(col[i])]

\* df.isnull().any(axis=1)
all_null_any(row) == \E c \in DOMAIN row : row[c] = <<>>

\* df.isnull().all(axis=1)
all_null(row) == \A c \in DOMAIN row : isnull(row[c])

\* df.isnull().all(axis=1).sum() on every row: the count of all the blank
\* rows of the frame instead of the running count
isnull_all_sum(df) ==
    [i \in 1..Len(df) |->
        Cardinality({j \in 1..Len(df) : \A c \in DOMAIN df[j] : df[j][c] = <<>>})]

\* df.isnull().all(axis=1).cumsum()
isnull_all_cumsum(df) ==
    [i \in 1..Len(df) |-> Cardinality({j \in 1..i : all_null(df[j])})]

\* a row dropna() drops: some column of it is missing.  The sentence number
\* is an integer and never missing
any_null(row) == \E c \in DOMAIN row \ {"sentence"} : isnull(row[c])

keep_row(row) == ~any_null(row)

\* df.dropna()
dropna(df) == SelectSeq(df, keep_row)

\* the distinct values of a column
Values(col) == {col[i] : i \in 1..Len(col)}

\* df.groupby('sentence')[name].apply(list): a Series over the sentence
\* numbers that occur, in increasing order, each with its rows' values in
\* the order of the frame
RECURSIVE SortInts(_)
SortInts(S) ==
    IF S = {} THEN <<>> ELSE <<Min(S)>> \o SortInts(S \ {Min(S)})

RowsOf(df, k) == SelectSeq(df, LAMBDA r : r.sentence = k)

\* groupby('sentence')[name].apply(lambda c: list(c)[::-1]): each list
\* back to front
groupby_list_reversed(df, name) ==
    LET index == SortInts(Values(Col(df, "sentence")))
    IN  [index |-> index,
         values |-> [g \in 1..Len(index) |->
                        Reverse(Col(RowsOf(df, index[g]), name))]]

groupby_list(df, name) ==
    LET index == SortInts(Values(Col(df, "sentence")))
    IN  [index |-> index,
         values |-> [g \in 1..Len(index) |-> Col(RowsOf(df, index[g]), name)]]

-----------------------------------------------------------------------------
(* sklearn. *)

\* np.unique of an array of strings: the distinct strings, sorted
RECURSIVE np_unique(_)
np_unique(S) ==
    IF S = {} THEN <<>>
    ELSE LET m == CHOOSE x \in S : \A y \in S \ {x} : StrLess(x, y)
         IN  <<m>> \o np_unique(S \ {m})

\* the position of a label in classes_, counted from 0
IndexOf(classes, v) == (CHOOSE i \in 1..Len(classes) : classes[i] = v) - 1

\* classes_ without np.unique: the column as it stands
LabelEncoder_fit_column(col) == col

\* classes_ as pd.unique would give them: the distinct values in the order
\* of their first appearance
LabelEncoder_fit_first_seen(col) ==
    LET first == SortInts({i \in 1..Len(col) :
                              \A j \in 1..(i - 1) : col[j] # col[i]})
    IN  [k \in 1..Len(first) |-> col[first[k]]]

\* LabelEncoder.fit: classes_
LabelEncoder_fit(col) == np_unique(Values(col))

\* np.searchsorted(classes, v): how many classes sort before v
searchsorted(classes, v) ==
    Cardinality({i \in 1..Len(classes) : StrLess(classes[i], v)})

\* LabelEncoder.transform of labels that are all in classes_: their
\* positions in the sorted classes_
LabelEncoder_transform(classes, col) ==
    [i \in 1..Len(col) |-> searchsorted(classes, col[i])]

\* no check for new labels
new_labels_unchecked(classes, col) == {}

\* LabelEncoder.transform raises ValueError("y contains new labels") on a
\* label that is not in classes_
new_labels(classes, col) == Values(col) \ Values(classes)

\* LabelEncoder.inverse_transform
inverse_transform(classes, ids) == [i \in 1..Len(ids) |-> classes[ids[i] + 1]]

\* word_map.get(x, len(word_encoder.classes_) - 1): the default is the last
\* known id
word_map_get_last(classes, w) ==
    IF w \in {classes[i] : i \in 1..Len(classes)}
    THEN (CHOOSE i \in 1..Len(classes) : classes[i] = w) - 1
    ELSE Len(classes) - 1

\* word_map.get(x, len(word_encoder.classes_)) with
\* word_map = {word: idx for idx, word in enumerate(word_encoder.classes_)}
word_map_get(classes, w) ==
    IF w \in Values(classes) THEN IndexOf(classes, w) ELSE Len(classes)

\* LabelBinarizer.transform of one label: a row of the indicator matrix.
\* With two classes the matrix has the one column of the second class, with
\* one class a single column of zeros
binarize(classes, y) ==
    IF Len(classes) >= 3
    THEN [k \in 1..Len(classes) |-> IF classes[k] = y THEN 1 ELSE 0]
    ELSE IF Len(classes) = 2
    THEN <<IF classes[2] = y THEN 1 ELSE 0>>
    ELSE <<0>>

\* onehot_encoder.transform(group)
LabelBinarizer_transform(classes, ys) ==
    [i \in 1..Len(ys) |-> binarize(classes, ys[i])]

-----------------------------------------------------------------------------
(* keras. *)

\* no truncation at all
trunc_none(s, maxlen) == s

\* s[-maxlen:], the truncating='pre' of pad_sequences
trunc_pre(s, maxlen) ==
    IF Len(s) > maxlen THEN SubSeq(s, Len(s) - maxlen + 1, Len(s)) ELSE s

\* padding='post': the sequence first, the fill after it
pad_row_post(s, maxlen, fill) ==
    LET trunc == IF Len(s) > maxlen THEN SubSeq(s, Len(s) - maxlen + 1, Len(s))
                 ELSE s
    IN  trunc \o [j \in 1..(maxlen - Len(trunc)) |-> fill]

\* one row of pad_sequences(..., padding='pre'): x[idx, -len(trunc):] = trunc
\* on a row filled with the value; an empty sequence leaves the row as it is
pad_row(s, maxlen, fill) ==
    LET trunc == trunc_pre(s, maxlen)
    IN  IF Len(s) = 0 THEN [j \in 1..maxlen |-> fill]
        ELSE [j \in 1..(maxlen - Len(trunc)) |-> fill] \o trunc

\* pad_sequences(sequences, maxlen=maxlen, value=value) of lists of numbers
pad_sequences(sequences, maxlen, value) ==
    [i \in 1..Len(sequences) |-> pad_row(sequences[i], maxlen, value)]

\* sample_shape of pad_sequences: the shape of the first non-empty
\* sequence past its first axis; here the width of the indicator rows
sample_width(sequences) ==
    LET N == {i \in 1..Len(sequences) : Len(sequences[i]) > 0}
    IN  IF N = {} THEN 0 ELSE Len(sequences[Min(N)][1])

\* pad_sequences of the 2-d arrays of indicator rows: the value fills whole
\* rows of the sample shape
pad_sequences_2d(sequences, maxlen, value) ==
    LET fill == [k \in 1..sample_width(sequences) |-> value]
    IN  [i \in 1..Len(sequences) |-> pad_row(sequences[i], maxlen, fill)]

-----------------------------------------------------------------------------
(* The pretrained word vectors. *)

\* the 50 of glove.6B.50d and of np.zeros((..., 50))
embedding_dim == 50

eu == <<"e", "u">>

\* a line "word v1 ... v50" of the table, split at the separator " "; the
\* numbers stand for the floats of the file and none of them is 0
VectorLine(w) == <<w>> \o [k \in 1..embedding_dim |-> 100 * Ord(w[1]) + k]

\* the tables of the model; each holds a word once, as glove.6B.50d.txt does,
\* and its words in lower case or in upper case
GloVeFiles == {<<VectorLine(a_), VectorLine(eu)>>,
               <<VectorLine(EU), VectorLine(b_)>>}

\* pd.read_table(path, index_col=0, header=None, sep=' '): the first field
\* is the index, the others are the columns 1..50
read_table(file) ==
    [i \in 1..Len(file) |-> [index |-> Head(file[i]), values |-> Tail(file[i])]]

\* df.index
Index(df) == {df[i].index : i \in 1..Len(df)}

\* df.loc[label] of a frame with a unique index: the row of the label; the
\* label is compared as it stands
loc(df, label) == (CHOOSE r \in Values(df) : r.index = label).values

\* np.zeros((rows, cols))
np_zeros(rows, cols) == [i \in 1..rows |-> [k \in 1..cols |-> 0]]

\* str.lower() on the letters of the model's words
lower(w) ==
    [k \in 1..Len(w) |->
        CASE w[k] = "E" -> "e" [] w[k] = "U" -> "u" [] w[k] = "A" -> "a"
          [] w[k] = "B" -> "b" [] OTHER -> w[k]]

\* the loop with df.loc[word.lower()]: the lookup folds the case
embedding_loop_lower(matrix, classes, df) ==
    [i \in 1..Len(matrix) |->
        IF i <= Len(classes) /\ lower(classes[i]) \in Index(df)
        THEN loc(df, lower(classes[i]))
        ELSE matrix[i]]

\* for i, word in enumerate(classes): try: matrix[i] = df.loc[word]
\*                                    except: pass
\* a KeyError of df.loc leaves row i as it is
embedding_loop(matrix, classes, df) ==
    [i \in 1..Len(matrix) |->
        IF i <= Len(classes) /\ classes[i] \in Index(df)
        THEN loc(df, classes[i])
        ELSE matrix[i]]

-----------------------------------------------------------------------------
(* The notebooks. *)

\* value=-1 of the first notebook's pad_sequences(x_train_sentence, ...)
value_x == -1
\* value=0 of the first notebook's pad_sequences(y_train_tag_onehot, ...)
value_y == 0
\* the default value=0. of the second notebook's pad_sequences
value_default == 0

\* the value the notebook pads the input array with
x_value(nb) == IF nb = 1 THEN value_x ELSE value_default

NoSeries == [index |-> <<>>, values |-> <<>>]

InitWith(files) ==
    /\ notebook \in {1, 2}
    /\ train_file \in files
    /\ pc = "read_train"
    /\ err = ""
    /\ train = <<>>
    /\ entity_tag_classes = <<>>
    /\ word_classes = <<>>
    /\ onehot_classes = <<>>
    /\ x_train_sentence = NoSeries
    /\ y_train_tag = NoSeries
    /\ y_train_tag_onehot = <<>>
    /\ x_train_seq = <<>>
    /\ y_train_seq = <<>>
    /\ test_file = <<>>
    /\ test = <<>>
    /\ GloVe = <<>>
    /\ embedding_matrix = <<>>

TagFiles ==
    UNION {{TagFile(np_unique(S)), TagFile(Reverse(np_unique(S)))} :
              S \in (SUBSET RawTags) \ {{}}}

Init == InitWith(TrainFiles \cup TagFiles)

fitted == <<entity_tag_classes, word_classes, onehot_classes>>
grouped == <<x_train_sentence, y_train_tag, y_train_tag_onehot>>
padded == <<x_train_seq, y_train_seq>>
inputs == <<notebook, train_file>>
embedded == <<GloVe, embedding_matrix>>

\* an exception ends the run
Raise(e) == pc' = "raised" /\ err' = e

Goto(cell) == pc' = cell /\ err' = err

\* train = pd.read_csv("./data/CoNLL-2003/eng.train", ...)
ReadTrain ==
    /\ pc = "read_train"
    /\ train' = read_csv(train_file)
    /\ Goto("strip_train")
    /\ UNCHANGED <<inputs, embedded, fitted, grouped, padded, test_file, test>>

\* train["entity"] = train["origin_entity"].str.rsplit("-", 1).str[-1]
StripTrain ==
    /\ pc = "strip_train"
    /\ IF has_str(Col(train, "origin_entity"))
       THEN /\ train' = SetCol(train, "entity",
                               str_rsplit_last(Col(train, "origin_entity")))
            /\ Goto("number_train")
       ELSE /\ Raise("AttributeError")
            /\ train' = train
    /\ UNCHANGED <<inputs, embedded, fitted, grouped, padded, test_file, test>>

\* train["sentence"] = train.isnull().all(axis=1).cumsum()
NumberTrain ==
    /\ pc = "number_train"
    /\ train' = SetCol(train, "sentence", isnull_all_cumsum(train))
    /\ Goto("dropna_train")
    /\ UNCHANGED <<inputs, embedded, fitted, grouped, padded, test_file, test>>

\* train = train.dropna()
DropnaTrain ==
    /\ pc = "dropna_train"
    /\ train' = dropna(train)
    /\ Goto("fit_tags")
    /\ UNCHANGED <<inputs, embedded, fitted, grouped, padded, test_file, test>>

\* train['y'] = entity_tag_encoder.fit_transform(train.entity)
FitTags ==
    /\ pc = "fit_tags"
    /\ entity_tag_classes' = LabelEncoder_fit(Col(train, "entity"))
    /\ train' = SetCol(train, "y",
                       LabelEncoder_transform(entity_tag_classes',
                                              Col(train, "entity")))
    /\ Goto("fit_words")
    /\ UNCHANGED <<inputs, embedded, word_classes, onehot_classes, grouped, padded,
                   test_file, test>>

\* train['x'] = word_encoder.fit_transform(train.word)
FitWords ==
    /\ pc = "fit_words"
    /\ word_classes' = LabelEncoder_fit(Col(train, "word"))
    /\ train' = SetCol(train, "x",
                       LabelEncoder_transform(word_classes', Col(train, "word")))
    /\ Goto(IF notebook = 1 THEN "fit_onehot" ELSE "group")
    /\ UNCHANGED <<inputs, embedded, entity_tag_classes, onehot_classes, grouped, padded,
                   test_file, test>>

\* onehot_encoder.fit(train.y), first notebook only; raises
\* ValueError("y has 0 samples") on a frame without rows
FitOnehot ==
    /\ pc = "fit_onehot"
    /\ IF Len(train) > 0
       THEN /\ onehot_classes' = SortInts(Values(Col(train, "y")))
            /\ Goto("group")
       ELSE /\ Raise("y has 0 samples")
            /\ onehot_classes' = onehot_classes
    /\ UNCHANGED <<inputs, embedded, train, entity_tag_classes, word_classes, grouped,
                   padded, test_file, test>>

\* x_train_sentence = train.groupby('sentence')['x'].apply(list), and in the
\* first notebook y_train_tag and y_train_tag_onehot with it
Group ==
    /\ pc = "group"
    /\ x_train_sentence' = groupby_list(train, "x")
    /\ IF notebook = 1
       THEN /\ y_train_tag' = groupby_list(train, "y")
            /\ y_train_tag_onehot' =
                   [g \in 1..Len(y_train_tag'.values) |->
                       LabelBinarizer_transform(onehot_classes,
                                                y_train_tag'.values[g])]
       ELSE UNCHANGED <<y_train_tag, y_train_tag_onehot>>
    /\ Goto("pad")
    /\ UNCHANGED <<inputs, embedded, train, fitted, padded, test_file, test>>

\* x_train_seq = pad_sequences(x_train_sentence, maxlen=100, value=-1)
\* y_train_seq = pad_sequences(y_train_tag_onehot, maxlen=100, value=0)
\* and, in the second notebook, pad_sequences(x_train_sentence, maxlen=60)
Pad ==
    /\ pc = "pad"
    /\ x_train_seq' = pad_sequences(x_train_sentence.values, MaxLen,
                                    x_value(notebook))
    /\ IF notebook = 1
       THEN y_train_seq' = pad_sequences_2d(y_train_tag_onehot, MaxLen, value_y)
       ELSE UNCHANGED y_train_seq
    /\ Goto(IF notebook = 1 THEN "read_glove" ELSE "done")
    /\ UNCHANGED <<inputs, embedded, train, fitted, grouped, test_file, test>>

\* GloVe = pd.read_table('data/glove.6B.50d.txt', index_col=0, header=None,
\*                       sep=' ', quoting=csv.QUOTE_NONE)
ReadGloVe ==
    /\ pc = "read_glove"
    /\ \E f \in GloVeFiles : GloVe' = read_table(f)
    /\ embedding_matrix' = embedding_matrix
    /\ Goto("embedding")
    /\ UNCHANGED <<inputs, train, fitted, grouped, padded, test_file, test>>

\* embedding_matrix = np.zeros((len(word_encoder.classes_) + 1, 50)) and the
\* loop over enumerate(word_encoder.classes_)
BuildEmbedding ==
    /\ pc = "embedding"
    /\ embedding_matrix' =
           embedding_loop(np_zeros(Len(word_classes) + 1, embedding_dim),
                          word_classes, GloVe)
    /\ GloVe' = GloVe
    /\ Goto("read_test")
    /\ UNCHANGED <<inputs, train, fitted, grouped, padded, test_file, test>>

\* test = pd.read_csv('data/CoNLL-2003/eng.testa', ...)
ReadTest ==
    /\ pc = "read_test"
    /\ \E file \in TestFiles :
          /\ test_file' = file
          /\ test' = read_csv(file)
    /\ Goto("strip_test")
    /\ UNCHANGED <<inputs, embedded, train, fitted, grouped, padded>>

\* test["entity"] = test["origin_entity"].str.rsplit("-", 1).str[-1]
StripTest ==
    /\ pc = "strip_test"
    /\ IF has_str(Col(test, "origin_entity"))
       THEN /\ test' = SetCol(test, "entity",
                              str_rsplit_last(Col(test, "origin_entity")))
            /\ Goto("number_test")
       ELSE /\ Raise("AttributeError")
            /\ test' = test
    /\ UNCHANGED <<inputs, embedded, train, fitted, grouped, padded, test_file>>

\* test["sentence"] = test.isnull().all(axis=1).cumsum()
NumberTest ==
    /\ pc = "number_test"
    /\ test' = SetCol(test, "sentence", isnull_all_cumsum(test))
    /\ Goto("dropna_test")
    /\ UNCHANGED <<inputs, embedded, train, fitted, grouped, padded, test_file>>

\* test = test.dropna()
DropnaTest ==
    /\ pc = "dropna_test"
    /\ test' = dropna(test)
    /\ Goto("transform_tags")
    /\ UNCHANGED <<inputs, embedded, train, fitted, grouped, padded, test_file>>

\* test['y'] = entity_tag_encoder.fit_transform(test.entity): the encoder is
\* fitted again, on the test split
TransformTagsRefit ==
    /\ pc = "transform_tags"
    /\ entity_tag_classes' = LabelEncoder_fit(Col(test, "entity"))
    /\ test' = SetCol(test, "y",
                      LabelEncoder_transform(entity_tag_classes',
                                             Col(test, "entity")))
    /\ Goto("transform_words")
    /\ UNCHANGED <<inputs, embedded, train, word_classes, onehot_classes, grouped,
                   padded, test_file>>

\* test['y'] = entity_tag_encoder.transform(test.entity)
TransformTags ==
    /\ pc = "transform_tags"
    /\ IF new_labels(entity_tag_classes, Col(test, "entity")) = {}
       THEN /\ test' = SetCol(test, "y",
                              LabelEncoder_transform(entity_tag_classes,
                                                     Col(test, "entity")))
            /\ Goto("transform_words")
       ELSE /\ Raise("y contains new labels")
            /\ test' = test
    /\ UNCHANGED <<inputs, embedded, train, fitted, grouped, padded, test_file>>

\* test['x'] = test['word'].apply(lambda x: word_map.get(x, len(classes_)))
TransformWords ==
    /\ pc = "transform_words"
    /\ test' = SetCol(test, "x",
                      [i \in 1..Len(test) |->
                          word_map_get(word_classes, test[i].word)])
    /\ Goto("done")
    /\ UNCHANGED <<inputs, embedded, train, fitted, grouped, padded, test_file>>

Next ==
    \/ ReadTrain
    \/ StripTrain
    \/ NumberTrain
    \/ DropnaTrain
    \/ FitTags
    \/ FitWords
    \/ FitOnehot
    \/ Group
    \/ Pad
    \/ ReadGloVe
    \/ BuildEmbedding
    \/ ReadTest
    \/ StripTest
    \/ NumberTest
    \/ DropnaTest
    \/ TransformTags
    \/ TransformWords

Spec == Init /\ [][Next]_vars

-----------------------------------------------------------------------------
(* Where a run stands. *)

\* the padding cell has run
AfterPad ==
    \/ pc \in {"read_glove", "embedding", "read_test", "strip_test", "number_test", "dropna_test",
               "transform_tags", "transform_words"}
    \/ pc = "done"
    \/ pc = "raised" /\ test_file # <<>>

\* the grouping cell has run
AfterGroup == pc = "pad" \/ AfterPad

\* both label encoders are fitted
AfterFit ==
    \/ pc \in {"fit_onehot", "group"}
    \/ pc = "raised" /\ err = "y has 0 samples"
    \/ AfterGroup

\* the prefixes of a sequence, the empty one included
Prefixes(q) == {SubSeq(q, 1, k) : k \in 0..Len(q)}

-----------------------------------------------------------------------------
(* Padding. *)

\* C1: every row of the padded input array and of the padded label array
\* has length exactly maxlen, whatever the length n >= 0 of the sentence,
\* and the arrays have one row per sentence.
C1_PaddingLengthExact ==
    AfterPad =>
        /\ Len(x_train_seq) = Len(x_train_sentence.values)
        /\ \A i \in 1..Len(x_train_seq) : Len(x_train_seq[i]) = MaxLen
        /\ \A i \in 1..Len(x_train_sentence.values) :
              \A q \in Prefixes(x_train_sentence.values[i]) :
                  Len(pad_row(q, MaxLen, x_value(notebook))) = MaxLen
        /\ notebook = 1 =>
              /\ Len(y_train_seq) = Len(y_train_tag_onehot)
              /\ \A i \in 1..Len(y_train_seq) : Len(y_train_seq[i]) = MaxLen

\* a sentence longer than maxlen and its label rows have been padded
C1_Witness ==
    /\ AfterPad
    /\ notebook = 1
    /\ \E i \in 1..Len(x_train_sentence.values) :
          /\ Len(x_train_sentence.values[i]) > MaxLen
          /\ Len(x_train_seq[i]) = MaxLen
          /\ Len(y_train_seq[i]) = MaxLen

\* C2: a sentence of n <= maxlen tokens becomes maxlen - n padding values
\* followed by its n word ids in their order.
C2_LeftPadding ==
    AfterPad =>
        \A i \in 1..Len(x_train_sentence.values) :
            LET ids == x_train_sentence.values[i]
                n == Len(ids)
            IN  n <= MaxLen =>
                    /\ \A j \in 1..(MaxLen - n) :
                          x_train_seq[i][j] = x_value(notebook)
                    /\ \A j \in 1..n : x_train_seq[i][MaxLen - n + j] = ids[j]

\* a sentence shorter than maxlen has been padded
C2_Witness ==
    /\ AfterPad
    /\ \E i \in 1..Len(x_train_sentence.values) :
          /\ Len(x_train_sentence.values[i]) < MaxLen
          /\ x_train_seq[i][1] = x_value(notebook)
          /\ x_train_seq[i][MaxLen] = x_train_sentence.values[i][1]

\* C3 as stated: a sentence of n > maxlen tokens becomes its last maxlen
\* word ids in their order, and the row holds no padding value.  The second
\* notebook pads with 0, which is also the id of the first word of the
\* Vocabulary (see C4), so a truncated row can hold the padding value.
C3_TruncatedRowHoldsNoPadValue ==
    AfterPad =>
        \A i \in 1..Len(x_train_sentence.values) :
            LET ids == x_train_sentence.values[i]
                n == Len(ids)
            IN  n > MaxLen =>
                    /\ x_train_seq[i] = SubSeq(ids, n - MaxLen + 1, n)
                    /\ \A j \in 1..MaxLen : x_train_seq[i][j] # x_value(notebook)

\* C4 as stated: the value the input array is padded with is none of the
\* ids 0..V-1 of the Vocabulary and not the out-of-vocabulary id V.
C4_PadValueIsNoWordId ==
    AfterPad => x_value(notebook) \notin 0..Len(word_classes)

-----------------------------------------------------------------------------
(* Encoding a test split. *)

\* the distinct words and tags of the training frame
TrainWords == Values(Col(train, "word"))
TrainTags == Values(Col(train, "entity"))

\* the cell that encodes the words of the test split has run
TestWordsEncoded == pc = "done" /\ notebook = 1

\* the cell that encodes the tags of the test split has run without raising
TestTagsEncoded == pc = "transform_words" \/ TestWordsEncoded

\* C5: encoding the words of the test split does not raise; a word that is
\* not among the training words gets the id V, the number of distinct
\* training words, and a training word gets the id it has in the training
\* frame.
C5_UnseenWordsGetIdV ==
    /\ pc = "transform_words" => ENABLED TransformWords
    /\ TestWordsEncoded =>
          /\ err = ""
          /\ \A i \in 1..Len(test) :
                IF test[i].word \in TrainWords
                THEN \A j \in 1..Len(train) :
                        train[j].word = test[i].word => test[i].x = train[j].x
                ELSE test[i].x = Cardinality(TrainWords)

\* a test word that the non-empty Vocabulary does not hold has been encoded
C5_Witness ==
    /\ TestWordsEncoded
    /\ TrainWords # {}
    /\ \E i \in 1..Len(test) :
          test[i].word \notin TrainWords /\ test[i].x = Len(word_classes)

\* C6: the tags of the test split are encoded only when every one of them
\* is a tag of the training split; otherwise the cell raises and no token of
\* the split gets a tag id.
C6_UnseenTagRaises ==
    /\ TestTagsEncoded =>
          \A i \in 1..Len(test) :
              /\ test[i].entity \in TrainTags
              /\ \A j \in 1..Len(train) :
                    train[j].entity = test[i].entity => test[i].y = train[j].y
    /\ pc = "raised" /\ err = "y contains new labels" =>
          /\ \E i \in 1..Len(test) : test[i].entity \notin TrainTags
          /\ \A i \in 1..Len(test) : "y" \notin DOMAIN test[i]
    /\ pc = "transform_tags" /\ (\E i \in 1..Len(test) :
                                     test[i].entity \notin TrainTags) =>
          ~ENABLED (TransformTags /\ pc' # "raised")

\* a test split with a tag the training split lacks has raised
C6_Witness ==
    /\ pc = "raised"
    /\ err = "y contains new labels"
    /\ TrainTags # {}
    /\ \E i \in 1..Len(test) : test[i].entity \notin TrainTags

-----------------------------------------------------------------------------
(* Loading and sentence numbering. *)

\* a non-blank line that does not hold exactly four fields
Malformed(file) == \E i \in 1..Len(file) : Len(file[i]) \notin {0, 4}

WellFormed(file) == ~Malformed(file)

\* C7 as stated: a training file with a malformed line aborts the run.  The
\* code fills the line up with NaN and dropna() drops it without an error.
C7_MalformedLineAborts ==
    Malformed(train_file) => pc # "done"

\* the blank lines of a file
BlankLines(file) == {i \in 1..Len(file) : file[i] = BlankLine}

\* a token line that stays in the frame: four fields, none read as missing
KeptLine(line) == Len(line) = 4 /\ \A k \in 1..4 : line[k] \notin na_values

\* the kept lines that open a sentence: no kept line before them without a
\* blank line in between
SentenceHeads(file) ==
    {i \in 1..Len(file) :
        /\ KeptLine(file[i])
        /\ ~\E j \in 1..(i - 1) :
               KeptLine(file[j]) /\ \A k \in j..i : file[k] # BlankLine}

\* every token line of the file stays in the frame
AllKept(file) == \A i \in 1..Len(file) : file[i] = BlankLine \/ KeptLine(file[i])

\* C8 as stated, over the files whose token lines all stay in the frame:
\* the number of sentences is the number of blank lines, plus one when
\* tokens follow the last blank line.
C8_SentencesEqualBlankLines ==
    AfterGroup /\ AllKept(train_file) =>
        Len(x_train_sentence.index) =
            Cardinality(BlankLines(train_file))
            + (IF train_file[Len(train_file)] # BlankLine THEN 1 ELSE 0)

\* C8, amended: the number of sentences is the number of runs of lines
\* between blank lines that hold at least one token line whose fields are
\* all read as present.
C8_SentencesEqualTokenRuns ==
    AfterGroup /\ WellFormed(train_file) =>
        Len(x_train_sentence.index) = Cardinality(SentenceHeads(train_file))

\* two sentences have been grouped out of a well-formed file
C8_Witness ==
    /\ AfterGroup
    /\ WellFormed(train_file)
    /\ BlankLines(train_file) # {}
    /\ Len(x_train_sentence.index) = 2

-----------------------------------------------------------------------------
(* Tags and vocabularies. *)

\* the rows of both frames once the entity column is set
EntityRows ==
    {r \in Values(train) \cup Values(test) : "entity" \in DOMAIN r}

\* C9: stripping a stripped tag changes nothing, and O strips to O, for
\* every tag of the scheme.
C9_StripIdempotent ==
    \A r \in EntityRows :
        r.origin_entity \in RawTags =>
            /\ rsplit_last(r.entity) = r.entity
            /\ r.origin_entity = O => r.entity = O

\* every tag of the scheme has been stripped in one frame
C9_Witness ==
    /\ \A t \in RawTags : \E r \in EntityRows : r.origin_entity = t
    /\ \E r \in EntityRows : r.origin_entity = B_MISC /\ r.entity # B_MISC

\* C10: after the fit, the Vocabulary maps the distinct training words one
\* to one onto 0..V-1 and the Tag Vocabulary the distinct tags onto 0..K-1;
\* the inverse lookup of a training id returns the string it encodes.
C10_VocabularyBijection ==
    AfterFit =>
        /\ Len(word_classes) = Cardinality(TrainWords)
        /\ Len(entity_tag_classes) = Cardinality(TrainTags)
        /\ {train[i].x : i \in 1..Len(train)} = 0..(Cardinality(TrainWords) - 1)
        /\ {train[i].y : i \in 1..Len(train)} = 0..(Cardinality(TrainTags) - 1)
        /\ \A i \in 1..Len(train) :
              /\ inverse_transform(word_classes, <<train[i].x>>)
                     = <<train[i].word>>
              /\ inverse_transform(entity_tag_classes, <<train[i].y>>)
                     = <<train[i].entity>>
        /\ \A i, j \in 1..Len(train) :
              /\ train[i].word # train[j].word => train[i].x # train[j].x
              /\ train[i].entity # train[j].entity => train[i].y # train[j].y

\* all five tags and three words, some of them repeated, have been encoded
C10_Witness ==
    /\ AfterFit
    /\ Cardinality(TrainTags) = 5
    /\ {train[i].y : i \in 1..Len(train)} = 0..4
    /\ Cardinality(TrainWords) = 3
    /\ Len(train) > 5

-----------------------------------------------------------------------------
(* The fitted encoders and the test split. *)

\* the cells that read and encode the test split
TestCells == {"read_test", "strip_test", "number_test", "dropna_test",
              "transform_tags", "transform_words"}

\* C11: no cell that processes the test split changes the Vocabulary, the
\* Tag Vocabulary or the ids of the training frame, whether it ends normally
\* or raises.
C11_EncodersReadOnly ==
    [][(pc \in TestCells) =>
          (word_classes' = word_classes
             /\ entity_tag_classes' = entity_tag_classes
             /\ train' = train)]_vars

\* a test split with a word outside the Vocabulary has been encoded and the
\* encoders are still the ones fitted on the training frame
C11_Witness ==
    /\ pc = "done"
    /\ notebook = 1
    /\ \E i \in 1..Len(test) : test[i].word \notin Values(word_classes)
    /\ Len(word_classes) > 0
    /\ word_classes = LabelEncoder_fit(Col(train, "word"))
    /\ entity_tag_classes = LabelEncoder_fit(Col(train, "entity"))

-----------------------------------------------------------------------------
(* The label array. *)

\* the 5 of Dense(5, activation='softmax'): the number of tag classes the
\* tagging model puts out
num_tag_classes == 5

\* an all-zero row of the label array
AllZero(row) == \A k \in 1..Len(row) : row[k] = 0

\* the positions of row s of the padded arrays that hold no token
PadPositions(s) ==
    1..(MaxLen - Len(trunc_pre(x_train_sentence.values[s], MaxLen)))

\* the tag id of the token at a position of row s that holds one
TagIdAt(s, j) ==
    LET ys == y_train_tag.values[s]
    IN  ys[Len(ys) - MaxLen + j]

\* C12 as stated: a row of the label array is all-zero exactly where the
\* input array holds the padding value.  With fewer than three distinct
\* tags in the training frame LabelBinarizer puts out a single column, which
\* is 0 for the tokens of the first tag too (see C13).
C12_ZeroRowsAtPadPositions ==
    AfterPad /\ notebook = 1 =>
        \A s \in 1..Len(x_train_seq) :
            \A j \in 1..MaxLen :
                AllZero(y_train_seq[s][j]) <=> x_train_seq[s][j] = value_x

\* C13 as stated: every row of the label array at a token's position is a
\* one-hot vector of width 5 with its 1 at the token's tag id, whatever tags
\* the training frame holds.  LabelBinarizer is fitted on the tag ids that
\* occur, so the width is their number K (1 when K <= 2), not 5.
C13_OneHotRowsOfWidthFive ==
    AfterPad /\ notebook = 1 =>
        \A s \in 1..Len(y_train_seq) :
            \A j \in (1..MaxLen) \ PadPositions(s) :
                /\ Len(y_train_seq[s][j]) = num_tag_classes
                /\ \A k \in 1..Len(y_train_seq[s][j]) :
                      y_train_seq[s][j][k] = (IF k - 1 = TagIdAt(s, j) THEN 1 ELSE 0)

-----------------------------------------------------------------------------
(* Sentence numbers. *)

\* the lines of a file that stay in the frame, in the order of the file
KeptIdx(file) == SortInts({i \in 1..Len(file) : KeptLine(file[i])})

\* the blank lines of a file before line i
BlanksBefore(file, i) == Cardinality({j \in BlankLines(file) : j < i})

\* the frame has its sentence column and holds every line of the file
Numbered(df, file) ==
    /\ Len(df) = Len(file)
    /\ \A i \in 1..Len(df) : "sentence" \in DOMAIN df[i]

\* the sentence numbers of a numbered frame: each token line carries the
\* number of blank lines before it
NumberedRight(df, file) ==
    \A i \in 1..Len(df) :
        file[i] # BlankLine => df[i].sentence = BlanksBefore(file, i)

\* the sentence numbers of the frame after dropna(): row i is the i-th kept
\* line of the file and carries the number of blank lines before that line;
\* the numbers never decrease, and two rows share one exactly when no blank
\* line lies between their lines
DroppedRight(df, file) ==
    LET at == KeptIdx(file)
    IN  /\ Len(df) = Len(at)
        /\ \A i \in 1..Len(df) :
              /\ df[i].word = file[at[i]][1]
              /\ df[i].sentence = BlanksBefore(file, at[i])
        /\ \A i, j \in 1..Len(df) :
              i < j =>
                  /\ df[i].sentence <= df[j].sentence
                  /\ df[i].sentence = df[j].sentence
                         <=> \A k \in at[i]..at[j] : file[k] # BlankLine

\* dropna() has run on the training frame, on the test frame
TrainDropped == pc \in {"fit_tags", "fit_words"} \/ AfterFit

TestDropped ==
    \/ pc \in {"transform_tags", "transform_words"}
    \/ pc = "done" /\ notebook = 1
    \/ pc = "raised" /\ err = "y contains new labels"

\* C14: the sentence number of a token is the number of blank lines before
\* it in the file, counted before the blank rows are dropped; the numbers
\* never decrease and two tokens share one iff no blank line lies between.
C14_SentenceIdCountsBlankLines ==
    /\ pc = "dropna_train" => Numbered(train, train_file)
                                /\ NumberedRight(train, train_file)
    /\ pc = "dropna_test" => Numbered(test, test_file)
                               /\ NumberedRight(test, test_file)
    /\ TrainDropped => DroppedRight(train, train_file)
    /\ TestDropped => DroppedRight(test, test_file)

\* two tokens with a blank line between them carry the numbers 0 and 1, the
\* blank row is gone
C14_Witness ==
    /\ TrainDropped
    /\ Len(train_file) = 3
    /\ train_file[2] = BlankLine
    /\ Len(train) = 2
    /\ train[1].sentence = 0
    /\ train[2].sentence = 1

-----------------------------------------------------------------------------
(* Tag normalization. *)

\* the five entity classes a tag of the scheme names
EntityNames == {<<"O", "R", "G">>, <<"P", "E", "R">>, <<"L", "O", "C">>,
                <<"M", "I", "S", "C">>, <<"O">>}

\* e is what follows the last hyphen of t, the whole of t when t has none
AfterLastHyphen(t, e) ==
    /\ \A k \in 1..Len(e) : e[k] # "-"
    /\ \/ e = t
       \/ \E p \in Prefixes(t) : t = p \o <<"-">> \o e

\* C15: for every raw tag of the scheme B-X, I-X, O the entity column holds
\* what follows the last hyphen (the whole tag when there is none), which is
\* one of ORG, PER, LOC, MISC, O; B-X and I-X give the same X.
C15_NormalizedTag ==
    \A r \in EntityRows :
        r.origin_entity \in RawTags =>
            /\ AfterLastHyphen(r.origin_entity, r.entity)
            /\ r.entity \in EntityNames
            /\ \A q \in EntityRows :
                  (q.origin_entity \in RawTags
                     /\ Len(q.origin_entity) > 1
                     /\ Len(r.origin_entity) > 1
                     /\ Tail(q.origin_entity) = Tail(r.origin_entity))
                  => q.entity = r.entity

\* B-LOC and I-LOC have both been normalized to LOC, and O to O
C15_Witness ==
    /\ \E r \in EntityRows :
          r.origin_entity = B_LOC /\ r.entity = <<"L", "O", "C">>
    /\ \E r \in EntityRows :
          r.origin_entity = I_LOC /\ r.entity = <<"L", "O", "C">>
    /\ \E r \in EntityRows : r.origin_entity = O /\ r.entity = O

-----------------------------------------------------------------------------
(* Grouping. *)

\* the sequences of a sequence, one after the other
RECURSIVE Concat(_)
Concat(ss) == IF ss = <<>> THEN <<>> ELSE Head(ss) \o Concat(Tail(ss))

\* the rows of the training frame that carry sentence number k
TokensOf(k) == {i \in 1..Len(train) : train[i].sentence = k}

\* the grouped series holds one list per sentence number that has tokens,
\* by increasing number; the list of a sentence holds column name of its
\* tokens in the order of the frame; the lists one after the other are the
\* column
GroupedRight(series, name) ==
    /\ Len(series.values) = Len(series.index)
    /\ Values(series.index) = Values(Col(train, "sentence"))
    /\ \A g, h \in 1..Len(series.index) :
          g < h => series.index[g] < series.index[h]
    /\ \A g \in 1..Len(series.index) :
          LET rows == TokensOf(series.index[g])
          IN  /\ Len(series.values[g]) = Cardinality(rows)
              /\ \A k \in 1..Len(series.values[g]) :
                    series.values[g][k] = train[Min(rows) + k - 1][name]
    /\ Concat(series.values) = Col(train, name)

\* C16: grouping gives one sequence per sentence number that has tokens, as
\* long as the sentence, its ids in the order of the stream; the sequences by
\* increasing sentence number make up the encoded stream; the word ids and
\* the tag ids of a sentence are parallel.
C16_GroupingKeepsOrder ==
    AfterGroup =>
        /\ GroupedRight(x_train_sentence, "x")
        /\ notebook = 1 =>
              /\ GroupedRight(y_train_tag, "y")
              /\ y_train_tag.index = x_train_sentence.index
              /\ \A g \in 1..Len(x_train_sentence.values) :
                    Len(y_train_tag.values[g]) = Len(x_train_sentence.values[g])

\* a sentence of two tokens with different word ids after a blank line:
\* sentence number 0 has no tokens and no sequence
C16_Witness ==
    /\ AfterGroup
    /\ notebook = 1
    /\ train_file[1] = BlankLine
    /\ x_train_sentence.index = <<1>>
    /\ Len(x_train_sentence.values[1]) = 2
    /\ x_train_sentence.values[1][1] # x_train_sentence.values[1][2]
    /\ Len(y_train_tag.values[1]) = 2

-----------------------------------------------------------------------------
(* The order of the ids. *)

\* the id that sorted order gives string v among the distinct strings S: the
\* number of strings of S that sort before v
RankIn(S, v) == Cardinality({w \in S : StrLess(w, v)})

\* classes_ and the ids of a column follow from the set of its distinct
\* strings alone: classes_ lists the set in ascending order and the id of a
\* string is its rank in the set
SortedIds(classes, col, ids) ==
    /\ Values(classes) = Values(col)
    /\ \A i, j \in 1..Len(classes) : i < j => StrLess(classes[i], classes[j])
    /\ \A i \in 1..Len(col) : ids[i] = RankIn(Values(col), col[i])
    /\ LabelEncoder_fit(Reverse(col)) = classes
    /\ LabelEncoder_fit(col \o col) = classes

\* C17: the ids given at fit depend on the set of distinct strings only:
\* they follow the sorted order of the distinct words and tags, whatever the
\* order and the multiplicities of the strings in the corpus.
C17_IdsFollowSortedOrder ==
    AfterFit =>
        /\ SortedIds(word_classes, Col(train, "word"), Col(train, "x"))
        /\ SortedIds(entity_tag_classes, Col(train, "entity"), Col(train, "y"))

\* a corpus that lists its words out of order and one of them twice, and
\* its tags out of order
C17_Witness ==
    /\ AfterFit
    /\ Len(train) = 3
    /\ StrLess(train[2].word, train[1].word)
    /\ train[3].word = train[1].word
    /\ StrLess(train[2].entity, train[1].entity)
    /\ Len(word_classes) = 2
    /\ train[1].x = 1
    /\ train[2].x = 0

-----------------------------------------------------------------------------
(* The embedding table. *)

\* the cell that builds embedding_matrix has run
AfterEmbedding ==
    \/ pc \in TestCells
    \/ pc = "done" /\ notebook = 1
    \/ pc = "raised" /\ test_file # <<>>

\* the lines of the pretrained table that start with the string w
PretrainedRows(w) == {i \in 1..Len(GloVe) : GloVe[i].index = w}

\* C18: the embedding table has V+1 rows; row i < V is the pretrained vector
\* of word i when the pretrained table holds that very string and all-zero
\* otherwise; row V is all-zero; a missing word does not abort the build.
C18_EmbeddingRows ==
    /\ pc = "embedding" => ENABLED (BuildEmbedding /\ pc' = "read_test")
    /\ pc = "raised" => err # "KeyError"
    /\ AfterEmbedding =>
          LET V == Len(word_classes)
          IN  /\ Len(embedding_matrix) = V + 1
              /\ \A i \in 1..(V + 1) : Len(embedding_matrix[i]) = embedding_dim
              /\ \A i \in 0..(V - 1) :
                    IF PretrainedRows(word_classes[i + 1]) = {}
                    THEN AllZero(embedding_matrix[i + 1])
                    ELSE \A g \in PretrainedRows(word_classes[i + 1]) :
                             embedding_matrix[i + 1] = GloVe[g].values
              /\ AllZero(embedding_matrix[V + 1])

\* the table holds "a" and "eu", the Vocabulary "EU" and "a": the row of "a"
\* is its vector, the row of "EU" is all-zero, and the build has passed
C18_Witness ==
    /\ AfterEmbedding
    /\ word_classes = <<EU, a_>>
    /\ Index(GloVe) = {a_, eu}
    /\ AllZero(embedding_matrix[1])
    /\ ~AllZero(embedding_matrix[2])
    /\ embedding_matrix[2] = loc(GloVe, a_)
    /\ Len(embedding_matrix) = 3

\* C19: every entry of the padded input array, the pad positions included,
\* is a row index 0..V of the embedding table of V+1 rows.
C19_InputsAreRowIndices ==
    AfterEmbedding /\ notebook = 1 =>
        \A s \in 1..Len(x_train_seq) : \A j \in 1..Len(x_train_seq[s]) :
            x_train_seq[s][j] \in 0..(Len(embedding_matrix) - 1)

====
